---- MODULE Spec2Model ----
(***************************************************************************)
(* Model of app.py: a Flask application with three routes over one upload  *)
(* directory.                                                              *)
(*                                                                         *)
(*   POST /agregarImagen         writes request.data to                    *)
(*                               uploads/received_image.jpg                *)
(*   GET  /verImagenes           lists the entries of uploads/             *)
(*   GET  /verImagen/<filename>  serves uploads/<filename>                 *)
(*                                                                         *)
(* The file system is the application directory (the process's working     *)
(* directory, which is also Flask's root_path when the server is started   *)
(* as `python app.py` from the repository): it holds app.py and, when it   *)
(* exists, the directory uploads/ with its entries.  A path is a sequence  *)
(* of segments relative to the application directory.                      *)
(*                                                                         *)
(* Two specifications:                                                     *)
(*   Spec      requests are served one at a time, each handler is one step *)
(*   SpecConc  upload requests run in threads; open, write and close of    *)
(*             each are separate steps that interleave                     *)
(***************************************************************************)
EXTENDS Integers, Sequences, FiniteSets, TLC

\* ---------------------------------------------------------------- bounds

\* Longest request body (and file content) in bytes.
MaxLen == 2
\* Number of concurrently served upload requests (SpecConc).
NThreads == 2

\* ------------------------------------------------------------- constants

UPLOAD_FOLDER == "uploads"
RECEIVED == "received_image.jpg"
ALLOWED_EXTENSIONS == {"jpg", "jpeg", "png"}

\* The byte values of request bodies in Spec. In SpecConc thread t's body is
\* made of the byte t, so that every byte of the file tells who wrote it.
Byte == {1, 2}
Bodies == UNION {[1..k -> Byte] : k \in 0..MaxLen}

\* Entry names that occur in the model, with the extension of each
\* (the text after the last '.', lower-cased; "" when there is no '.').
SUBDIR == "sub"
SegNames == {RECEIVED, SUBDIR, "nope.jpg", "..", "app.py"}
HasDot(name) == name \in {RECEIVED, "nope.jpg", "..", "app.py"}
ExtensionOf(name) ==
    CASE name = RECEIVED -> "jpg"
      [] name = "nope.jpg" -> "jpg"
      [] name = "app.py" -> "py"
      [] OTHER -> ""

allowed_file(filename) == HasDot(filename) /\ ExtensionOf(filename) \in ALLOWED_EXTENSIONS

\* The content of app.py, a file of the application directory outside uploads/.
\* Its bytes are no Byte of a request body.
AppPyBytes == <<0, 0>>

FileEntry(bytes) == [kind |-> "file", bytes |-> bytes]
DirEntry == [kind |-> "dir", bytes |-> <<>>]
NoEntry == [kind |-> "none", bytes |-> <<>>]

EmptyDir == [n \in {} |-> NoEntry]

\* ------------------------------------------------------------- responses

NoError == <<>>
Response(status, kind, error, message, imagenes, bytes) ==
    [status |-> status, kind |-> kind, error |-> error, message |-> message,
     imagenes |-> imagenes, bytes |-> bytes]

NoResponse == Response(0, "none", NoError, "", {}, <<>>)
JsonError(status, error) == Response(status, "json", error, "", {}, <<>>)
JsonMessage(message) == Response(200, "json", NoError, message, {}, <<>>)
JsonImagenes(names) == Response(200, "json", NoError, "", names, <<>>)
FileResponse(bytes) == Response(200, "file", NoError, "", {}, bytes)
\* Flask's answer to an HTTPException a handler lets through (or the router raises).
HttpExceptionResponse(code) == Response(code, "html", NoError, "", {}, <<>>)

\* str(e) of the OSError the file system raises.
ENOENT == "[Errno 2] No such file or directory"
EACCES == "[Errno 13] Permission denied"
ENOSPC == "[Errno 28] No space left on device"

\* What a handler yields: the response and the upload directory after it.
Outcome(r, dir, ups) == [resp |-> r, dir |-> dir, ups |-> ups]

\* ----------------------------------------------------------- file system

Put(ups, name, entry) ==
    [n \in (DOMAIN ups) \cup {name} |-> IF n = name THEN entry ELSE ups[n]]

EntryOf(ups, name) == IF name \in DOMAIN ups THEN ups[name] ELSE NoEntry

\* The node at a path without ".." segments, relative to the application directory.
NodeAt(dir, ups, path) ==
    CASE path = <<>> -> DirEntry
      [] path = <<"app.py">> -> FileEntry(AppPyBytes)
      [] path = <<UPLOAD_FOLDER>> -> IF dir THEN DirEntry ELSE NoEntry
      [] Len(path) = 2 /\ path[1] = UPLOAD_FOLDER ->
            IF dir THEN EntryOf(ups, path[2]) ELSE NoEntry
      [] OTHER -> NoEntry

\* The operating system's resolution of `rest` from the directory `cur`:
\* every directory passed through has to exist, ".." steps to the parent.
\* Nothing above the application directory is part of the model.
RECURSIVE Walk(_, _, _, _)
Walk(dir, ups, cur, rest) ==
    IF rest = <<>> THEN NodeAt(dir, ups, cur)
    ELSE IF NodeAt(dir, ups, cur).kind # "dir" THEN NoEntry
    ELSE IF Head(rest) = ".."
         THEN IF cur = <<>> THEN NoEntry
              ELSE Walk(dir, ups, SubSeq(cur, 1, Len(cur) - 1), Tail(rest))
         ELSE Walk(dir, ups, Append(cur, Head(rest)), Tail(rest))

Stat(dir, ups, path) == Walk(dir, ups, <<>>, path)

isfile(dir, ups, path) == Stat(dir, ups, path).kind = "file"

\* os.path.join(UPLOAD_FOLDER, filename), filename split at '/'.
JoinUploads(filename) == <<UPLOAD_FOLDER>> \o filename

\* open(filepath, 'wb') without O_TRUNC (a variant of OpenWB).
OpenNoTruncate(dir, ups, name, fault) ==
    IF ~dir THEN [ok |-> FALSE, exc |-> ENOENT, ups |-> ups]
    ELSE IF fault.kind = "EACCES" THEN [ok |-> FALSE, exc |-> EACCES, ups |-> ups]
    ELSE IF EntryOf(ups, name).kind = "dir"
         THEN [ok |-> FALSE, exc |-> "[Errno 21] Is a directory", ups |-> ups]
    ELSE [ok |-> TRUE, exc |-> "",
          ups |-> IF name \in DOMAIN ups THEN ups ELSE Put(ups, name, FileEntry(<<>>))]

\* open(filepath, 'wb'): fails when uploads/ does not exist or is not writable;
\* otherwise creates the file, or truncates the one that is there.
OpenWB(dir, ups, name, fault) ==
    IF ~dir THEN [ok |-> FALSE, exc |-> ENOENT, ups |-> ups]
    ELSE IF fault.kind = "EACCES" THEN [ok |-> FALSE, exc |-> EACCES, ups |-> ups]
    ELSE IF EntryOf(ups, name).kind = "dir"
         THEN [ok |-> FALSE, exc |-> "[Errno 21] Is a directory", ups |-> ups]
    ELSE [ok |-> TRUE, exc |-> "", ups |-> Put(ups, name, FileEntry(<<>>))]

\* A write that appends, as a file opened 'ab' would (a variant of WriteAt0).
WriteAppend(bytes, data) == bytes \o data

\* img_file.write(data) on a file object just opened: the bytes go to offset 0
\* of the file as it is at that moment; what lies beyond them stays.
WriteAt0(bytes, data) == data \o SubSeq(bytes, Len(data) + 1, Len(bytes))

\* A name made from the content (a variant of upload_filename).
UniqueFilename(data) == IF Head(data) = 1 THEN RECEIVED ELSE "nope.jpg"

\* filename = "received_image.jpg", whatever the request.
upload_filename(data) == RECEIVED

\* What the environment does to an upload: nothing, a directory that cannot be
\* written (open raises), or a device that fills up after `written` bytes
\* (write raises).
NoFault == [kind |-> "none", written |-> 0]
Faults(data) ==
    {NoFault, [kind |-> "EACCES", written |-> 0]}
    \cup {[kind |-> "ENOSPC", written |-> k] : k \in 0..(Len(data) - 1)}

\* The file after the write step of an upload.
WriteStep(ups, name, data, fault) ==
    IF fault.kind = "ENOSPC"
    THEN Put(ups, name,
             FileEntry(WriteAt0(ups[name].bytes, SubSeq(data, 1, fault.written))))
    ELSE Put(ups, name, FileEntry(WriteAt0(ups[name].bytes, data)))

\* ---------------------------------------------------------------- routes

\* The guard of line 26 dropped (a variant of agregar_imagen).
agregar_imagen_unguarded(dir, ups, data, fault) ==
    LET name == upload_filename(data)
        o == OpenWB(dir, ups, name, fault)
    IN  IF ~o.ok
        THEN Outcome(JsonError(500, <<"Failed to save image: ", o.exc>>), dir, ups)
        ELSE Outcome(JsonMessage("Image successfully saved at uploads/received_image.jpg"),
                     dir, WriteStep(o.ups, name, data, fault))

\* POST /agregarImagen, `data` being request.data.
agregar_imagen(dir, ups, data, fault) ==
    IF data = <<>>
    THEN Outcome(JsonError(400, <<"No image data received">>), dir, ups)
    ELSE LET name == upload_filename(data)
             o == OpenWB(dir, ups, name, fault)
         IN  IF ~o.ok
             THEN Outcome(JsonError(500, <<"Failed to save image: ", o.exc>>), dir, ups)
             ELSE IF fault.kind = "ENOSPC"
             THEN Outcome(JsonError(500, <<"Failed to save image: ", ENOSPC>>),
                          dir, WriteStep(o.ups, name, data, fault))
             ELSE Outcome(JsonMessage("Image successfully saved at uploads/received_image.jpg"),
                          dir, WriteStep(o.ups, name, data, fault))

\* os.listdir(UPLOAD_FOLDER): every entry name, files and directories alike.
listdir(dir, ups) ==
    IF dir THEN [ok |-> TRUE, exc |-> "", names |-> DOMAIN ups]
    ELSE [ok |-> FALSE, exc |-> ENOENT, names |-> {}]

\* A listing that keeps the allowed image files only (a variant of ver_imagenes).
ver_imagenes_filtered(dir, ups) ==
    LET l == listdir(dir, ups)
    IN  IF l.ok THEN Outcome(JsonImagenes({n \in l.names : allowed_file(n)}), dir, ups)
        ELSE Outcome(JsonError(500, <<"Error al obtener las imagenes: ", l.exc>>), dir, ups)

\* A listing that first makes sure the directory is there, as
\* os.makedirs(UPLOAD_FOLDER, exist_ok=True) would (a variant of ver_imagenes).
ver_imagenes_makedirs(dir, ups) == Outcome(JsonImagenes(DOMAIN ups), TRUE, ups)

\* GET /verImagenes. (The error text is written here without its accent.)
ver_imagenes(dir, ups) ==
    LET l == listdir(dir, ups)
    IN  IF l.ok THEN Outcome(JsonImagenes({img \in l.names : TRUE}), dir, ups)
        ELSE Outcome(JsonError(500, <<"Error al obtener las imagenes: ", l.exc>>), dir, ups)

\* posixpath.normpath of a relative path: "x/.." cancels, leading ".." stay.
RECURSIVE NormInto(_, _)
NormInto(done, rest) ==
    IF rest = <<>> THEN done
    ELSE IF Head(rest) = ".." /\ done # <<>> /\ done[Len(done)] # ".."
         THEN NormInto(SubSeq(done, 1, Len(done) - 1), Tail(rest))
         ELSE NormInto(Append(done, Head(rest)), Tail(rest))

normpath(filename) == NormInto(<<>>, filename)

\* werkzeug's safe_join(directory, filename): None when the normalised name is
\* ".." or starts with "../"; the joined path otherwise.
safe_join(filename) ==
    LET n == normpath(filename)
    IN  IF n # <<>> /\ n[1] = ".." THEN [ok |-> FALSE, path |-> <<>>]
        ELSE [ok |-> TRUE, path |-> JoinUploads(n)]

\* flask.send_from_directory(UPLOAD_FOLDER, filename): raises werkzeug's NotFound
\* (an HTTPException, no FileNotFoundError) when the name does not join safely
\* or names no regular file; the file's bytes otherwise.
send_from_directory(dir, ups, filename) ==
    LET j == safe_join(filename)
    IN  IF ~j.ok THEN [raised |-> "NotFound", bytes |-> <<>>]
        ELSE IF ~isfile(dir, ups, j.path) THEN [raised |-> "NotFound", bytes |-> <<>>]
        ELSE [raised |-> "", bytes |-> Stat(dir, ups, j.path).bytes]

\* The URL rule '/verImagen/<filename>': the default converter takes one
\* segment, a segment holds no '/'.
RuleMatches(filename) == Len(filename) = 1

\* The route written with <path:filename> and
\* send_file(os.path.join(UPLOAD_FOLDER, filename)) (a variant of ver_imagen).
ver_imagen_joined(dir, ups, filename) ==
    IF isfile(dir, ups, JoinUploads(filename))
    THEN Outcome(FileResponse(Stat(dir, ups, JoinUploads(filename)).bytes), dir, ups)
    ELSE Outcome(JsonError(404, <<"Imagen no encontrada">>), dir, ups)

\* GET /verImagen/<filename>: the URL rule, then the handler. The handler's
\* except clause takes FileNotFoundError only; anything else raised goes to
\* Flask, which answers an HTTPException with that exception's own page.
ver_imagen(dir, ups, filename) ==
    IF ~RuleMatches(filename) THEN Outcome(HttpExceptionResponse(404), dir, ups)
    ELSE LET s == send_from_directory(dir, ups, filename)
         IN  IF s.raised = "" THEN Outcome(FileResponse(s.bytes), dir, ups)
             ELSE IF s.raised = "FileNotFoundError"
             THEN Outcome(JsonError(404, <<"Imagen no encontrada">>), dir, ups)
             ELSE Outcome(HttpExceptionResponse(404), dir, ups)

\* ----------------------------------------------------------------- state

VARIABLES
    dirExists,    \* whether the directory uploads/ exists
    uploads,      \* the entries of uploads/: name -> [kind, bytes]
    req,          \* the last request served (Spec)
    resp,         \* the response to it
    pre,          \* history: uploads/ as it was before the last request
    initEntries,  \* history: the entry names of uploads/ at process start
    lastUp,       \* history: the last upload with a non-empty body, and its status
    afterOther,   \* history: lastUp followed a successful upload of another body
    pc,           \* SpecConc: where each upload thread is
    tlen,         \* SpecConc: the length of each thread's request body
    tstatus,      \* SpecConc: each thread's response status, 0 before it answers
    lastWriter    \* SpecConc: history, the thread that wrote last, 0 for none

fsVars == <<dirExists, uploads>>
seqVars == <<req, resp, pre, lastUp, afterOther>>
concVars == <<pc, tlen, tstatus, lastWriter>>
vars == <<dirExists, uploads, req, resp, pre, initEntries, lastUp, afterOther,
          pc, tlen, tstatus, lastWriter>>

Threads == 1..NThreads
\* The URL remainders after /verImagen/ that are requested, split at '/':
\* every single segment, and some that lead out of uploads/ or back into it.
Filenames ==
    {<<n>> : n \in SegNames}
    \cup {<<"..", "app.py">>, <<SUBDIR, "..", "..", "app.py">>,
          <<"..", UPLOAD_FOLDER, RECEIVED>>, <<SUBDIR, "..", RECEIVED>>}

Request(route, data, filename, fault) ==
    [route |-> route, data |-> data, filename |-> filename, fault |-> fault]
NoRequest == Request("none", <<>>, <<>>, NoFault)
NoUpload == [data |-> <<>>, status |-> 0]

\* What uploads/ may hold when the process starts: nothing, or what earlier
\* runs and the operator left there.
InitEntry(name) == IF name = RECEIVED THEN FileEntry(<<0>>) ELSE DirEntry
InitDirs == {[n \in S |-> InitEntry(n)] : S \in SUBSET {SUBDIR, RECEIVED}}

\* Process start: UPLOAD_FOLDER is set to a name; nothing is created.
Init ==
    /\ dirExists \in BOOLEAN
    /\ uploads \in (IF dirExists THEN InitDirs ELSE {EmptyDir})
    /\ initEntries = DOMAIN uploads
    /\ req = NoRequest
    /\ resp = NoResponse
    /\ pre = [dir |-> dirExists, ups |-> uploads]
    /\ lastUp = NoUpload
    /\ afterOther = FALSE
    /\ pc = [t \in Threads |-> "idle"]
    /\ tlen = [t \in Threads |-> 0]
    /\ tstatus = [t \in Threads |-> 0]
    /\ lastWriter = 0

\* ------------------------------------------------ Spec: one request a step

Serve(r, o) ==
    /\ req' = r
    /\ resp' = o.resp
    /\ dirExists' = o.dir
    /\ uploads' = o.ups
    /\ pre' = [dir |-> dirExists, ups |-> uploads]
    /\ UNCHANGED <<initEntries, concVars>>

AgregarImagen ==
    \E data \in Bodies : \E fault \in Faults(data) :
        LET o == agregar_imagen(dirExists, uploads, data, fault)
        IN  /\ Serve(Request("agregarImagen", data, <<>>, fault), o)
            /\ lastUp' = IF data # <<>>
                         THEN [data |-> data, status |-> o.resp.status] ELSE lastUp
            /\ afterOther' = IF data # <<>>
                             THEN o.resp.status = 200 /\ lastUp.status = 200
                                  /\ lastUp.data # data
                             ELSE afterOther

VerImagenes ==
    /\ Serve(Request("verImagenes", <<>>, <<>>, NoFault), ver_imagenes(dirExists, uploads))
    /\ UNCHANGED <<lastUp, afterOther>>

VerImagen ==
    \E filename \in Filenames :
        /\ Serve(Request("verImagen", <<>>, filename, NoFault),
                 ver_imagen(dirExists, uploads, filename))
        /\ UNCHANGED <<lastUp, afterOther>>

Next == AgregarImagen \/ VerImagenes \/ VerImagen

Spec == Init /\ [][Next]_vars

\* ------------------------------------- SpecConc: uploads in threads

\* Thread t's request body: tlen[t] bytes of value t.
BodyOf(t, k) == [i \in 1..k |-> t]
Body(t) == BodyOf(t, tlen[t])

Finish(t, status) ==
    /\ pc' = [pc EXCEPT ![t] = "done"]
    /\ tstatus' = [tstatus EXCEPT ![t] = status]

\* Lines 26-31: the request arrives; an empty body is answered 400.
CBegin(t) ==
    /\ pc[t] = "idle"
    /\ \E k \in 0..MaxLen :
        /\ tlen' = [tlen EXCEPT ![t] = k]
        /\ IF BodyOf(t, k) = <<>>
           THEN Finish(t, 400)
           ELSE pc' = [pc EXCEPT ![t] = "open"] /\ UNCHANGED tstatus
    /\ UNCHANGED <<fsVars, seqVars, initEntries, lastWriter>>

\* Line 35: open(filepath, 'wb').
COpen(t) ==
    /\ pc[t] = "open"
    /\ \E fault \in {f \in Faults(Body(t)) : f.kind # "ENOSPC"} :
        LET o == OpenWB(dirExists, uploads, upload_filename(Body(t)), fault)
        IN  IF o.ok
            THEN /\ uploads' = o.ups
                 /\ pc' = [pc EXCEPT ![t] = "write"]
                 /\ UNCHANGED tstatus
            ELSE /\ Finish(t, 500)
                 /\ UNCHANGED uploads
    /\ UNCHANGED <<dirExists, seqVars, initEntries, tlen, lastWriter>>

\* Line 36 (and the flush of the file object's buffer): the body reaches the
\* file in one write at the thread's own offset 0.
CWrite(t) ==
    /\ pc[t] = "write"
    /\ \E fault \in {f \in Faults(Body(t)) : f.kind # "EACCES"} :
        /\ uploads' = WriteStep(uploads, upload_filename(Body(t)), Body(t), fault)
        /\ IF fault.kind = "ENOSPC"
           THEN Finish(t, 500)
           ELSE pc' = [pc EXCEPT ![t] = "close"] /\ UNCHANGED tstatus
    /\ lastWriter' = t
    /\ UNCHANGED <<dirExists, seqVars, initEntries, tlen>>

\* Lines 35-37: the with block closes the file and the handler answers 200.
CClose(t) ==
    /\ pc[t] = "close"
    /\ Finish(t, 200)
    /\ UNCHANGED <<fsVars, seqVars, initEntries, tlen, lastWriter>>

NextConc == \E t \in Threads : CBegin(t) \/ COpen(t) \/ CWrite(t) \/ CClose(t)

SpecConc == Init /\ [][NextConc]_vars

\* ---------------------------------------------------------------- claims

IsUpload == req.route = "agregarImagen"
IsList == req.route = "verImagenes"
IsFetch == req.route = "verImagen"
FetchesReceived == IsFetch /\ req.filename = <<RECEIVED>>
StorageUntouched == dirExists = pre.dir /\ uploads = pre.ups
ReceivedBytes == EntryOf(uploads, RECEIVED).bytes

\* C1: in a sequential run, when the last upload with a non-empty body b was
\* answered 200, GET /verImagen/received_image.jpg answers 200 with exactly b.
C1_RoundTrip ==
    (FetchesReceived /\ lastUp.status = 200)
        => resp = FileResponse(lastUp.data)

\* A fetch after a successful upload that replaced a file of another length.
C1_Witness ==
    /\ FetchesReceived
    /\ lastUp.status = 200
    /\ RECEIVED \in initEntries
    /\ Len(lastUp.data) = MaxLen
    /\ resp.bytes = lastUp.data

C3_EmptyBodyRejected ==
    (IsUpload /\ req.data = <<>>)
        => /\ resp = JsonError(400, <<"No image data received">>)
           /\ StorageUntouched

\* An empty upload arriving when an uploaded image is stored.
C3_Witness ==
    /\ IsUpload
    /\ req.data = <<>>
    /\ resp.status = 400
    /\ lastUp.status = 200
    /\ ReceivedBytes = lastUp.data

\* C4: GET /verImagen/<filename> answers 404 with the JSON body
\* {"error": "Imagen no encontrada"} when no such file is in the upload
\* directory, and 200 with the file's bytes when there is one.
C4_NotFoundIsJson ==
    (IsFetch /\ Len(req.filename) = 1)
        => LET e == IF dirExists THEN EntryOf(uploads, req.filename[1]) ELSE NoEntry
           IN  /\ e.kind = "file" => resp = FileResponse(e.bytes)
               /\ e.kind = "none" => resp = JsonError(404, <<"Imagen no encontrada">>)

C6_DirectoryCreatedAtStart ==
    /\ (IsUpload /\ req.data # <<>> /\ req.fault = NoFault)
            => (dirExists /\ resp.status = 200)
    /\ pre.dir => dirExists
    /\ DOMAIN pre.ups \subseteq DOMAIN uploads

\* C7: a file system failure during an upload or a listing becomes a 500 JSON
\* response, and a request that failed (400, 404, 500) leaves behind nothing
\* that changes what a later request gets: storage is as it was before it.
C7_FailuresIndependent ==
    /\ (IsUpload /\ req.data # <<>> /\ (req.fault # NoFault \/ ~pre.dir))
            => (resp.status = 500 /\ resp.kind = "json")
    /\ (IsList /\ ~pre.dir) => (resp.status = 500 /\ resp.kind = "json")
    /\ resp.status \in {400, 404, 500} => StorageUntouched

\* C8 --------------------------------------------------------------------

AllDone200 == \A t \in Threads : pc[t] = "done" /\ tstatus[t] = 200
IsMixture == \A t \in Threads : ReceivedBytes # Body(t)

\* C8 as claimed: once all concurrent uploads have completed, the stored file
\* is exactly the body of one of them, the last one to write.
C8_LastWriterWins ==
    AllDone200 => \E t \in Threads : t = lastWriter /\ ReceivedBytes = Body(t)

\* C8 as amended: once all concurrent uploads have completed with 200, the
\* stored file starts with the whole body of the upload that wrote last; what
\* follows is the tail of longer bodies written before it, every byte at the
\* place it has in the body it comes from. The file is exactly the last
\* writer's body when all bodies have the same length.
C8_LastWriterPrefix ==
    AllDone200
        => LET c == ReceivedBytes
               w == Body(lastWriter)
           IN  /\ EntryOf(uploads, RECEIVED).kind = "file"
               /\ Len(c) >= Len(w)
               /\ SubSeq(c, 1, Len(w)) = w
               /\ \A i \in 1..Len(c) : \E t \in Threads : i <= tlen[t] /\ c[i] = t
               /\ (\A t, u \in Threads : tlen[t] = tlen[u]) => c = w

\* All uploads answered 200 and the file is no request's body.
C8_Witness == AllDone200 /\ IsMixture

\* C9 --------------------------------------------------------------------

\* Where os.path.join(UPLOAD_FOLDER, filename) leads, read lexically: outside
\* uploads/ or to uploads/ itself.
Escapes(filename) ==
    LET n == normpath(JoinUploads(filename))
    IN  Len(n) < 2 \/ n[1] # UPLOAD_FOLDER

\* C9 as claimed: a filename that resolves to a file outside the upload
\* directory is served rather than rejected.
C9_TraversalServed ==
    (IsFetch /\ Escapes(req.filename)
        /\ isfile(dirExists, uploads, JoinUploads(req.filename)))
        => resp = FileResponse(Stat(dirExists, uploads, JoinUploads(req.filename)).bytes)

\* C9 as amended: the handler checks nothing itself, but the URL rule takes a
\* single segment and send_from_directory joins safely, so a filename that
\* leads out of the upload directory is answered 404, and every 200 carries
\* the bytes of a regular file that is an entry of the upload directory.
C9_ConfinedToUploads ==
    IsFetch
        => /\ Escapes(req.filename) => resp.status = 404
           /\ resp.status = 200
                => \E n \in DOMAIN uploads :
                      /\ req.filename = <<n>>
                      /\ uploads[n].kind = "file"
                      /\ resp.bytes = uploads[n].bytes

\* A request for ../app.py, which exists, answered 404.
C9_Witness ==
    /\ IsFetch
    /\ req.filename = <<"..", "app.py">>
    /\ isfile(dirExists, uploads, JoinUploads(req.filename))
    /\ resp.status = 404

\* C10: GET /verImagenes and GET /verImagen/<filename> leave the upload
\* directory and every stored file as they were, whatever they answer; only
\* POST /agregarImagen with a non-empty body changes storage, and of the
\* entries only received_image.jpg.
C10_ReadOnlyRoutes ==
    /\ (IsList \/ IsFetch) => StorageUntouched
    /\ ~StorageUntouched => (IsUpload /\ req.data # <<>>)
    /\ dirExists = pre.dir
    /\ \A n \in ((DOMAIN uploads) \cup (DOMAIN pre.ups)) \ {RECEIVED} :
          EntryOf(uploads, n) = EntryOf(pre.ups, n)

\* A fetch of the stored image answered 200, an uploaded image and a
\* subdirectory in storage as before.
C10_Witness ==
    /\ IsFetch
    /\ resp.status = 200
    /\ lastUp.status = 200
    /\ SUBDIR \in DOMAIN uploads
    /\ StorageUntouched

====
